---- MODULE Spec2Model ----
(***************************************************************************)
(* Model of the analyze-document edge function                             *)
(* (supabase/functions/analyze-document/index.ts, the serve handler of     *)
(* lines 183-434): request validation, provider configuration, the         *)
(* prompts, the Ollama / OpenAI / basic fallback chain, the documents      *)
(* update and the response.  One invocation runs on the variables; a       *)
(* second invocation of the same handler is kept in `other` and the two    *)
(* are interleaved at the handler's await points.                          *)
(*                                                                         *)
(* JavaScript values are records [t, v]: t is "undefined" or "string".     *)
(* fileId and fileName carry TLA+ strings; content and mimeType carry      *)
(* sequences of one-character strings so that .length, .includes and       *)
(* .substring are computed, not assumed.  Confidence is counted in tenths  *)
(* (0.3 is 3).                                                             *)
(*                                                                         *)
(* Further components, each with its own specification and variables:      *)
(* the row level security of public.documents (SpecRls), the FileUpload    *)
(* component (SpecUpload), fileApi.uploadFiles (SpecApi), the FileList     *)
(* component (SpecList), the process-feedback edge function                *)
(* (SpecFeedback) and chunkText (SpecChunk).  A specification leaves the   *)
(* variables of the other components at their idle values.                 *)
(***************************************************************************)
EXTENDS Integers, Sequences, FiniteSets, TLC

VARIABLES
    method,          \* req.method
    body,            \* what req.json() yields: [kind, fileId, content, fileName, mimeType]
    env,             \* Deno.env: [OLLAMA_URL, OPENAI_API_KEY], each [set, value]
    pc,              \* position of the handler
    analysis,        \* let analysis
    analysisMethod,  \* let analysisMethod
    calls,           \* history: the provider functions invoked, in order, with outcome
    inflight,        \* providers whose fetch is awaiting its response
    documents,       \* table public.documents, by file_id
    updateCalls,     \* history: number of documents updates issued
    response,        \* the Response the handler returned
    other,           \* the request-local state of a second, suspended invocation
    publicDocuments, \* table public.documents under row level security: a set of rows
    lastOp,          \* history: the last statement run on public.documents
    filesWithProgress, \* FileUpload: the upload queue, [id, file, progress, status]
    isUploading,     \* FileUpload: useState(false)
    uploadCall,      \* FileUpload: the uploadFiles call and what its closure captured
    clearTimers,     \* FileUpload: pending setTimeout(() => setFilesWithProgress([]), 3000)
    sent,            \* history: per queue id, calls of fileApi.uploadFiles and results
    lastReport,      \* history: the last progress report and the queue entries it changed
    apiFiles,        \* fileApi.uploadFiles: its files argument
    apiPc,           \* fileApi.uploadFiles: position in the loop body
    results,         \* fileApi.uploadFiles: const results
    apiLog,          \* history: per file, what each awaited call answered
    searchQuery,     \* FileList: useState('')
    statusFilter,    \* FileList: useState('all')
    files,           \* FileList: the response shown, by the number of its request (0: [])
    loading,         \* FileList: useState(true)
    requests,        \* FileList: the loadFiles calls in order, [search, status, state]
    fbRequest,       \* process-feedback: what req.json() yields
    fbEnv,           \* process-feedback: Deno.env OPENAI_API_KEY
    fbPc,            \* process-feedback: position of the handler
    fileRecord,      \* process-feedback: the row of table files with the request's id
    fbLog,           \* history: the row before the request, what the AI call answered
    fbResponse,      \* process-feedback: the Response returned
    text,            \* chunkText: argument
    chunkSize,       \* chunkText: argument
    chunkOverlap,    \* chunkText: argument
    chunks,          \* chunkText: const chunks
    start,           \* chunkText: let start
    chunkPc          \* chunkText: position

\* The state of the analyze-document handler
handlerVars == <<method, body, env, pc, analysis, analysisMethod, calls, inflight,
                 documents, updateCalls, response, other>>

\* The state of the database as the browser client sees it
dbVars == <<publicDocuments, lastOp>>

\* The state of the FileUpload component
uploadVars == <<filesWithProgress, isUploading, uploadCall, clearTimers, sent, lastReport>>

\* The state of a call of fileApi.uploadFiles
apiVars == <<apiFiles, apiPc, results, apiLog>>

\* The state of the FileList component
listVars == <<searchQuery, statusFilter, files, loading, requests>>

\* The state of the process-feedback handler
feedbackVars == <<fbRequest, fbEnv, fbPc, fileRecord, fbLog, fbResponse>>

\* The state of a call of chunkText
chunkVars == <<text, chunkSize, chunkOverlap, chunks, start, chunkPc>>

\* Everything outside the analyze-document handler
clientVars == <<dbVars, uploadVars, apiVars, listVars, feedbackVars, chunkVars>>

vars == <<handlerVars, clientVars>>

\* No statement has run yet
NoOp == [op |-> "none", uid |-> "null", returned |-> {}, changed |-> {}, error |-> FALSE]

\* The handler runs alone: nothing else is in use
\* FileUpload as mounted: an empty queue
UploadIdle ==
    /\ filesWithProgress = <<>>
    /\ isUploading = FALSE
    /\ uploadCall = [active |-> FALSE, files |-> <<>>]
    /\ clearTimers = 0
    /\ sent = [times |-> <<>>, rows |-> <<>>, again |-> {}, lost |-> {}]
    /\ lastReport = [id |-> 0, changed |-> {}]

DbIdle ==
    /\ publicDocuments = {}
    /\ lastOp = NoOp

\* No call of fileApi.uploadFiles
ApiIdle ==
    /\ apiFiles = <<>>
    /\ apiPc = "returned"
    /\ results = <<>>
    /\ apiLog = <<>>

\* The components not in `used` are not in use: FileList not mounted, no
\* process-feedback request, no call of chunkText
RestIdle(used) ==
    /\ "list" \in used \/
          /\ searchQuery = ""
          /\ statusFilter = "all"
          /\ files = 0
          /\ loading = TRUE
          /\ requests = <<>>
    /\ "feedback" \in used \/
          /\ fbRequest = [parsed |-> FALSE, fileId |-> FALSE, feedbackType |-> "undefined",
                          userId |-> FALSE, correctValue |-> FALSE]
          /\ fbEnv = FALSE
          /\ fbPc = "done"
          /\ fileRecord = [exists |-> FALSE]
          /\ fbLog = [lookup |-> "none", ai |-> "none", before |-> [exists |-> FALSE]]
          /\ fbResponse = [success |-> FALSE]
    /\ "chunk" \in used \/
          /\ text = <<>>
          /\ chunkSize = 1
          /\ chunkOverlap = 0
          /\ chunks = <<>>
          /\ start = 0
          /\ chunkPc = "returned"

ClientIdle == DbIdle /\ UploadIdle /\ ApiIdle /\ RestIdle({})

-----------------------------------------------------------------------------
(* Bounds and input domains *)

MaxContentLen == 2

\* Values of the clock read by new Date()
MaxTime == 2
Times == 1..MaxTime

Undefined == [t |-> "undefined", v |-> <<>>]
Str(s) == [t |-> "string", v |-> s]

\* JavaScript truthiness of an undefined-or-string value
Truthy(x) == x.t = "string" /\ Len(x.v) > 0

RECURSIVE Repeat(_, _)
Repeat(c, n) == IF n = 0 THEN <<>> ELSE <<c>> \o Repeat(c, n - 1)

Contents == {Undefined} \cup {Str(Repeat("x", n)) : n \in 0..MaxContentLen}

MimePdf   == <<"a","p","p","l","i","c","a","t","i","o","n","/","p","d","f">>
MimeText  == <<"t","e","x","t","/","p","l","a","i","n">>
MimeImage == <<"i","m","a","g","e","/","p","n","g">>
MimeZip   == <<"a","p","p","l","i","c","a","t","i","o","n","/","z","i","p">>
MimeTypes == {Undefined, Str(MimePdf), Str(MimeText), Str(MimeImage), Str(MimeZip)}

FileIds   == {"f1", "f2"}
ReqFileIds == {Undefined, Str(""), Str("f1")}
FileNames == {Undefined, Str("hello.txt")}

EnvUnset == [set |-> FALSE, value |-> ""]
EnvVal(s) == [set |-> TRUE, value |-> s]
OllamaUrlEnv == {EnvUnset, EnvVal(""), EnvVal("disabled"), EnvVal("http://ollama:11434")}
OpenAIKeyEnv == {EnvUnset, EnvVal(""), EnvVal("sk-test")}

Bodies ==
    {[kind |-> k, fileId |-> Undefined, content |-> Undefined,
      fileName |-> Undefined, mimeType |-> Undefined] : k \in {"malformed", "null"}}
    \cup
    [kind : {"object"}, fileId : ReqFileIds, content : Contents,
     fileName : FileNames, mimeType : MimeTypes]

-----------------------------------------------------------------------------
(* Analysis values *)

RequiredKeys == {"summary", "key_points", "document_type", "confidence", "topics"}
AllKeys == RequiredKeys \cup {"metadata"}

NoAnalysis ==
    [t |-> "undefined", keys |-> {}, summary |-> <<>>, key_points |-> <<>>,
     document_type |-> "", confidence |-> 0, topics |-> <<>>, metadata |-> <<>>]

\* JSON.parse yielding null, or a number/string/boolean
NullAnalysis == [NoAnalysis EXCEPT !.t = "null"]
ScalarAnalysis == [NoAnalysis EXCEPT !.t = "scalar"]

\* JSON.parse yielding an object that has exactly the keys `keys`
ProviderObject(keys, conf) ==
    [t |-> "object", keys |-> keys,
     summary |-> IF "summary" \in keys THEN <<"provider summary">> ELSE <<>>,
     key_points |-> IF "key_points" \in keys THEN <<"provider point">> ELSE <<>>,
     document_type |-> IF "document_type" \in keys THEN "invoice" ELSE "",
     confidence |-> IF "confidence" \in keys THEN conf ELSE 0,
     topics |-> IF "topics" \in keys THEN <<"provider topic">> ELSE <<>>,
     metadata |-> IF "metadata" \in keys THEN <<"provider metadata">> ELSE <<>>]

ProviderConfidences == {3, 9, 15}
ProviderKeySets == {AllKeys, RequiredKeys, RequiredKeys \ {"confidence"}, {"summary"}, {}}

ParsedValues ==
    {NullAnalysis, ScalarAnalysis}
    \cup {ProviderObject(k, c) : k \in ProviderKeySets, c \in ProviderConfidences}

\* What one provider call can do: fetch rejects, the status is not OK, the
\* envelope is not JSON or lacks the text field, the text is not JSON, or
\* the text parses to some value.
ThrowKinds == {"network_error", "http_error", "bad_envelope", "bad_json"}
ProviderOutcomes ==
    {[kind |-> k, value |-> NoAnalysis] : k \in ThrowKinds}
    \cup {[kind |-> "parsed", value |-> v] : v \in ParsedValues}

-----------------------------------------------------------------------------
(* Pure parts of the handler *)

\* (mutant: startsWith in place of includes)
Includes_StartsWith(s, sub) ==
    Len(sub) <= Len(s) /\ SubSeq(s, 1, Len(sub)) = sub

\* String.prototype.includes on sequences of characters
Includes(s, sub) ==
    \E i \in 0..(Len(s) - Len(sub)) : SubSeq(s, i + 1, i + Len(sub)) = sub

\* String.prototype.substring(0, n)
Substring0(s, n) == SubSeq(s, 1, IF Len(s) < n THEN Len(s) ELSE n)

PreviewLimit == 500

DefaultOllamaUrl == "http://localhost:11434"

\* Deno.env.get(name) || fallback
EnvOr(e, fallback) == IF e.set /\ e.value # "" THEN e.value ELSE fallback

ollamaUrl == EnvOr(env.OLLAMA_URL, DefaultOllamaUrl)

\* openAIApiKey used as a condition
openAIApiKey == env.OPENAI_API_KEY.set /\ env.OPENAI_API_KEY.value # ""

useOllama == ollamaUrl # "disabled"

\* The branch the first try block takes: the provider it calls, or "none"
\* when it throws 'No AI service available'.
\* (mutant: OpenAI is preferred whenever its key is present)
PrimaryProvider_OpenAIFirst ==
    IF openAIApiKey THEN "openai"
    ELSE IF useOllama THEN "ollama"
    ELSE "none"

PrimaryProvider ==
    IF useOllama THEN "ollama"
    ELSE IF openAIApiKey THEN "openai"
    ELSE "none"

\* The branch the fallback try block takes, or "none" when it throws
\* 'No fallback available'.
\* (mutant: the fallback retries the provider that has just failed)
FallbackProvider_Retry ==
    IF useOllama THEN "ollama"
    ELSE IF openAIApiKey THEN "openai"
    ELSE "none"

\* (mutant: the fallback to OpenAI does not look at the API key)
FallbackProvider_Always ==
    IF useOllama THEN "openai"
    ELSE IF ~useOllama /\ ollamaUrl # "disabled" THEN "ollama"
    ELSE "none"

FallbackProvider ==
    IF useOllama /\ openAIApiKey THEN "openai"
    ELSE IF ~useOllama /\ ollamaUrl # "disabled" THEN "ollama"
    ELSE "none"

\* Template literal `${x}`
Show(x) == IF x.t = "undefined" THEN "undefined" ELSE x.v

TruncationLimit == 8000
TruncationMarker == "\n... (content truncated)"

\* (mutant: the label tests "text" before "pdf")
FileTypeContextOllama_TextFirst(mimeType) ==
    IF Includes(mimeType, <<"t","e","x","t">>) THEN "text document"
    ELSE IF Includes(mimeType, <<"p","d","f">>) THEN "PDF document"
    ELSE IF Includes(mimeType, <<"i","m","a","g","e">>) THEN "image document"
    ELSE "document"

\* fileTypeContext of analyzeWithOllama
FileTypeContextOllama(mimeType) ==
    IF Includes(mimeType, <<"p","d","f">>) THEN "PDF document"
    ELSE IF Includes(mimeType, <<"t","e","x","t">>) THEN "text document"
    ELSE IF Includes(mimeType, <<"i","m","a","g","e">>) THEN "image document"
    ELSE "document"

\* fileTypeContext of analyzeWithOpenAI
FileTypeContextOpenAI(mimeType) ==
    IF Includes(mimeType, <<"p","d","f">>) THEN "PDF document"
    ELSE IF Includes(mimeType, <<"t","e","x","t">>) THEN "text document"
    ELSE IF Includes(mimeType, <<"i","m","a","g","e">>) THEN "image document"
    ELSE "document"

\* (mutant: the marker is appended from the limit on, not above it)
EmbeddedContent_MarkerAtLimit(content) ==
    [text |-> Substring0(content, TruncationLimit),
     marker |-> IF Len(content) >= TruncationLimit THEN TruncationMarker ELSE ""]

\* ${content.substring(0, 8000)}${content.length > 8000 ? marker : ''}
EmbeddedContent(content) ==
    [text |-> Substring0(content, TruncationLimit),
     marker |-> IF Len(content) > TruncationLimit THEN TruncationMarker ELSE ""]

\* The prompt template of each provider with its interpolated parts: the
\* label, the title, the document text and the marker that follows it.
NoPrompt == [template |-> "none", label |-> "", title |-> "", text |-> <<>>, marker |-> ""]

OllamaPrompt ==
    [template |-> "ollama: extract key information",
     label |-> FileTypeContextOllama(body.mimeType.v),
     title |-> Show(body.fileName),
     text |-> EmbeddedContent(body.content.v).text,
     marker |-> EmbeddedContent(body.content.v).marker]

OpenAIPrompt ==
    [template |-> "openai: provide",
     label |-> FileTypeContextOpenAI(body.mimeType.v),
     title |-> Show(body.fileName),
     text |-> EmbeddedContent(body.content.v).text,
     marker |-> EmbeddedContent(body.content.v).marker]

Prompt(provider) == IF provider = "ollama" THEN OllamaPrompt ELSE OpenAIPrompt

\* analyzeWithOllama / analyzeWithOpenAI throw before their fetch: the OpenAI
\* key check, or mimeType.includes on a mimeType that is not a string.
ThrowsBeforeFetch(provider) ==
    \/ provider = "openai" /\ ~openAIApiKey
    \/ body.mimeType.t # "string"

\* Does a completed provider call throw?  Everything that is not a
\* successful JSON.parse does; any parsed value is returned as it is.
ProviderThrows(outcome) == outcome.kind # "parsed"

\* analysisMethod assigned after a successful first attempt / fallback
PrimaryMethod(provider) == provider
\* (mutant: the fallback tags its result like a first attempt)
FallbackMethod_Plain(provider) == provider

FallbackMethod(provider) ==
    IF provider = "openai" THEN "openai_fallback" ELSE "ollama_fallback"

BasicConfidence == 3

\* The object literal of the final fallback; its document_type throws when
\* mimeType is not a string.
BasicAnalysisThrows == body.mimeType.t # "string"

BasicAnalysisOf(conf) ==
    [t |-> "object", keys |-> AllKeys,
     summary |-> <<"Document \"", Show(body.fileName),
                   "\" has been uploaded and basic processing completed. Manual review recommended for detailed analysis.">>,
     key_points |-> << <<"Document uploaded successfully">>,
                       <<"File type detected: ", body.mimeType.v>>,
                       <<"Content length: ", Len(body.content.v), " characters">>,
                       <<"Manual review recommended for detailed insights">> >>,
     document_type |-> IF Includes(body.mimeType.v, <<"p","d","f">>) THEN "report"
                       ELSE IF Includes(body.mimeType.v, <<"i","m","a","g","e">>) THEN "other"
                       ELSE "other",
     confidence |-> conf,
     topics |-> <<"document_processing", "file_upload">>,
     metadata |-> <<"file_name", Show(body.fileName), "file_type", body.mimeType.v,
                    "processing_method", "basic_fallback">>]

\* (mutant: the basic analysis reports a medium confidence)
BasicAnalysis_Medium == BasicAnalysisOf(BasicConfidence + 2)

BasicAnalysis == BasicAnalysisOf(BasicConfidence)

\* (mutant: the summary mentions the processing time as well)
ProcessedAt_InSummary(a, t) ==
    [a EXCEPT !.summary = @ \o <<t>>,
              !.metadata = SubSeq(@, 1, 4) \o <<"processed_at", t>> \o SubSeq(@, 5, 6)]

\* metadata.processed_at: new Date().toISOString(), read at time t
ProcessedAt(a, t) ==
    [a EXCEPT !.metadata = SubSeq(@, 1, 4) \o <<"processed_at", t>> \o SubSeq(@, 5, 6)]

\* An analysis without its embedded timestamp
WithoutTimestamp(a) ==
    IF Len(a.metadata) = 8 /\ a.metadata[5] = "processed_at"
      THEN [a EXCEPT !.metadata = SubSeq(@, 1, 4) \o SubSeq(@, 7, 8)]
      ELSE a

\* Reading analysis.summary and friends throws a TypeError on null
ReadingAnalysisThrows(a) == a.t \in {"null", "undefined"}

HasKey(a, k) == a.t = "object" /\ k \in a.keys

\* The `analysis` member of the success response, as JSON.stringify writes
\* it: members whose value is undefined are left out, metadata defaults to {}.
ResponseAnalysis(a, m) ==
    [keys |-> {k \in RequiredKeys : HasKey(a, k)} \cup {"metadata", "analysis_method"},
     summary |-> a.summary, key_points |-> a.key_points,
     document_type |-> a.document_type, confidence |-> a.confidence,
     topics |-> a.topics,
     metadata |-> IF HasKey(a, "metadata") THEN a.metadata ELSE <<>>,
     analysis_method |-> m]

NoResponseAnalysis ==
    [keys |-> {}, summary |-> <<>>, key_points |-> <<>>, document_type |-> "",
     confidence |-> 0, topics |-> <<>>, metadata |-> <<>>, analysis_method |-> ""]

NoResponse == [status |-> 0, success |-> "none", analysis |-> NoResponseAnalysis, error |-> ""]
CorsResponse == [NoResponse EXCEPT !.status = 200]
SuccessResponse(a, m) ==
    [status |-> 200, success |-> "true", analysis |-> ResponseAnalysis(a, m), error |-> ""]
\* (mutant: the exception escapes, no Response is returned)
ErrorResponse_Escapes(msg) == NoResponse

\* The outer catch
ErrorResponse(msg) ==
    [status |-> 500, success |-> "false", analysis |-> NoResponseAnalysis, error |-> msg]

\* A documents row.  cols: the analysis columns that are not NULL; ekeys: the
\* keys of the entities JSON.
InitialRow ==
    [status |-> "processing", cols |-> {}, extracted_text |-> <<>>, doc_type |-> "",
     confidence |-> 0, ekeys |-> {}, key_points |-> <<>>, topics |-> <<>>,
     metadata |-> <<>>, analysis_method |-> "", content_preview |-> <<>>]

\* The update payload applied to a row: members whose value is undefined are
\* not sent, so their column keeps its value.
UpdatedRow(row, a, m) ==
    [status |-> "uploaded",
     cols |-> row.cols
              \cup (IF HasKey(a, "summary") THEN {"extracted_text"} ELSE {})
              \cup (IF HasKey(a, "document_type") THEN {"doc_type"} ELSE {})
              \cup (IF HasKey(a, "confidence") THEN {"confidence"} ELSE {})
              \cup {"entities"},
     extracted_text |-> IF HasKey(a, "summary") THEN a.summary ELSE row.extracted_text,
     doc_type |-> IF HasKey(a, "document_type") THEN a.document_type ELSE row.doc_type,
     confidence |-> IF HasKey(a, "confidence") THEN a.confidence ELSE row.confidence,
     ekeys |-> {k \in {"key_points", "topics"} : HasKey(a, k)}
               \cup {"metadata", "analyzed_at", "analysis_method", "content_preview"},
     key_points |-> a.key_points, topics |-> a.topics,
     metadata |-> IF HasKey(a, "metadata") THEN a.metadata ELSE <<>>,
     analysis_method |-> m,
     content_preview |-> Substring0(body.content.v, PreviewLimit)]

-----------------------------------------------------------------------------
(* The handler *)

\* The request-local state of an invocation
Locals(m, b, p, a, am, c, i, u, r) ==
    [method |-> m, body |-> b, pc |-> p, analysis |-> a, analysisMethod |-> am,
     calls |-> c, inflight |-> i, updateCalls |-> u, response |-> r]

MalformedBody ==
    [kind |-> "malformed", fileId |-> Undefined, content |-> Undefined,
     fileName |-> Undefined, mimeType |-> Undefined]

\* An invocation that has not read its request yet
NewCall(m, b) == Locals(m, b, "request", NoAnalysis, "fallback", <<>>, {}, 0, NoResponse)

\* No second invocation: a preflight that has been answered
NoCall == Locals("OPTIONS", MalformedBody, "done", NoAnalysis, "fallback", <<>>, {}, 0,
                 CorsResponse)

Init ==
    /\ method \in {"POST", "OPTIONS"}
    /\ body \in Bodies
    /\ method = "OPTIONS" => body.kind = "malformed"
    /\ env \in [OLLAMA_URL : OllamaUrlEnv, OPENAI_API_KEY : OpenAIKeyEnv]
    /\ pc = "request"
    /\ analysis = NoAnalysis
    /\ analysisMethod = "fallback"
    /\ calls = <<>>
    /\ inflight = {}
    /\ documents = [f \in FileIds |-> InitialRow]
    /\ updateCalls = 0
    /\ response = NoResponse
    /\ other = NoCall
    /\ ClientIdle

\* A throw that reaches the outer catch: the error response is returned
Fail(msg) ==
    /\ response' = ErrorResponse(msg)
    /\ pc' = "done"

\* (mutant: the required-field check of lines 191-193 is missing)
Receive_NoCheck ==
    /\ pc = "request"
    /\ IF method = "OPTIONS"
         THEN response' = CorsResponse /\ pc' = "done"
       ELSE IF body.kind = "malformed"
         THEN Fail("Unexpected token in JSON")
       ELSE IF body.kind = "null"
         THEN Fail("Cannot destructure property 'fileId' of null")
       ELSE response' = response /\ pc' = "primary"
    /\ UNCHANGED <<clientVars, other, method, body, env, analysis, analysisMethod, calls, inflight,
                   documents, updateCalls>>

\* Lines 184-203: the OPTIONS preflight, req.json(), the destructuring and
\* the required-field check.
Receive ==
    /\ pc = "request"
    /\ IF method = "OPTIONS"
         THEN response' = CorsResponse /\ pc' = "done"
       ELSE IF body.kind = "malformed"
         THEN Fail("Unexpected token in JSON")
       ELSE IF body.kind = "null"
         THEN Fail("Cannot destructure property 'fileId' of null")
       ELSE IF ~Truthy(body.fileId) \/ ~Truthy(body.content)
         THEN Fail("Missing required fields: fileId and content")
       ELSE response' = response /\ pc' = "primary"
    /\ UNCHANGED <<clientVars, other, method, body, env, analysis, analysisMethod, calls, inflight,
                   documents, updateCalls>>

\* One provider invocation: the prompt is the one its fetch carries
Call(provider, phase, outcome) ==
    [provider |-> provider, phase |-> phase, outcome |-> outcome,
     prompt |-> IF outcome = "pending" THEN Prompt(provider) ELSE NoPrompt]

\* (mutant: the call is fired and not awaited, the handler goes on)
Invoke_NoAwait(provider, phase, awaiting, failed) ==
    /\ calls' = Append(calls, Call(provider, phase, "pending"))
    /\ inflight' = inflight \cup {provider}
    /\ pc' = failed

\* Invoke analyzeWith<provider> in `phase`: either it throws before its
\* fetch, or the fetch is issued and the handler awaits it.
Invoke(provider, phase, awaiting, failed) ==
    IF ThrowsBeforeFetch(provider)
      THEN /\ calls' = Append(calls, Call(provider, phase, "threw"))
           /\ inflight' = inflight
           /\ pc' = failed
      ELSE /\ calls' = Append(calls, Call(provider, phase, "pending"))
           /\ inflight' = inflight \cup {provider}
           /\ pc' = awaiting

\* Lines 314-327: the first try block up to its await
AttemptPrimary ==
    /\ pc = "primary"
    /\ IF PrimaryProvider = "none"
         THEN /\ pc' = "fallback"
              /\ UNCHANGED <<calls, inflight>>
         ELSE Invoke(PrimaryProvider, "primary", "await_primary", "fallback")
    /\ UNCHANGED <<clientVars, other, method, body, env, analysis, analysisMethod, documents,
                   updateCalls, response>>

Settle(outcome) ==
    [calls EXCEPT ![Len(calls)].outcome =
        IF ProviderThrows(outcome) THEN "threw" ELSE "returned"]

\* Lines 238-250 / 276-308 resumed, then lines 317-319 / 322-324 or the
\* catch of line 328.
PrimaryReturns ==
    /\ pc = "await_primary"
    /\ \E outcome \in ProviderOutcomes :
        /\ calls' = Settle(outcome)
        /\ inflight' = inflight \ {calls[Len(calls)].provider}
        /\ IF ProviderThrows(outcome)
             THEN /\ pc' = "fallback"
                  /\ UNCHANGED <<analysis, analysisMethod>>
             ELSE /\ analysis' = outcome.value
                  /\ analysisMethod' = PrimaryMethod(calls[Len(calls)].provider)
                  /\ pc' = "update"
    /\ UNCHANGED <<clientVars, other, method, body, env, documents, updateCalls, response>>

\* Lines 332-343: the fallback try block up to its await
AttemptFallback ==
    /\ pc = "fallback"
    /\ IF FallbackProvider = "none"
         THEN /\ pc' = "basic"
              /\ UNCHANGED <<calls, inflight>>
         ELSE Invoke(FallbackProvider, "fallback", "await_fallback", "basic")
    /\ UNCHANGED <<clientVars, other, method, body, env, analysis, analysisMethod, documents,
                   updateCalls, response>>

\* Lines 335-336 / 339-340 resumed, or the catch of line 344
FallbackReturns ==
    /\ pc = "await_fallback"
    /\ \E outcome \in ProviderOutcomes :
        /\ calls' = Settle(outcome)
        /\ inflight' = inflight \ {calls[Len(calls)].provider}
        /\ IF ProviderThrows(outcome)
             THEN /\ pc' = "basic"
                  /\ UNCHANGED <<analysis, analysisMethod>>
             ELSE /\ analysis' = outcome.value
                  /\ analysisMethod' = FallbackMethod(calls[Len(calls)].provider)
                  /\ pc' = "update"
    /\ UNCHANGED <<clientVars, other, method, body, env, documents, updateCalls, response>>

\* (mutant: line 366 is missing, analysisMethod keeps its initial value)
BasicFallback_KeepsPlaceholder ==
    /\ pc = "basic"
    /\ IF BasicAnalysisThrows
         THEN /\ Fail("Cannot read properties of undefined (reading 'includes')")
              /\ UNCHANGED <<analysis, analysisMethod>>
         ELSE /\ \E t \in Times : analysis' = ProcessedAt(BasicAnalysis, t)
              /\ analysisMethod' = analysisMethod
              /\ pc' = "update"
              /\ response' = response
    /\ UNCHANGED <<clientVars, other, method, body, env, calls, inflight, documents, updateCalls>>

\* Lines 344-367: the final fallback to the basic analysis
BasicFallback ==
    /\ pc = "basic"
    /\ IF BasicAnalysisThrows
         THEN /\ Fail("Cannot read properties of undefined (reading 'includes')")
              /\ UNCHANGED <<analysis, analysisMethod>>
         ELSE /\ \E t \in Times : analysis' = ProcessedAt(BasicAnalysis, t)
              /\ analysisMethod' = "basic_fallback"
              /\ pc' = "update"
              /\ response' = response
    /\ UNCHANGED <<clientVars, other, method, body, env, calls, inflight, documents, updateCalls>>

\* (mutant: the update has no file_id filter)
Matches_AnyRow(f) == TRUE

\* .eq('file_id', fileId)
Matches(f) == f = body.fileId.v

\* What the documents update can do: update the rows it matches, match no
\* row (no row has the file_id, or row-level security hides it from the
\* anon-key client) without an error, or report an error.
UpdateOutcomes == {"ok", "no_rows", "error"}

\* (mutant: a failed update is issued a second time)
UpdateDocument_Retry ==
    /\ pc = "update"
    /\ IF ReadingAnalysisThrows(analysis)
         THEN /\ Fail("Cannot read properties of null (reading 'summary')")
              /\ UNCHANGED <<documents, updateCalls>>
         ELSE /\ updateCalls' = updateCalls + 1
              /\ documents' = documents
              /\ IF updateCalls = 0
                   THEN pc' = "update" /\ response' = response
                   ELSE Fail("Failed to save analysis to database")
    /\ UNCHANGED <<clientVars, other, method, body, env, analysis, analysisMethod, calls, inflight>>

\* Lines 372-399: the update payload is built (reading analysis.summary
\* throws on null), the update is awaited and its error is thrown.
UpdateDocument ==
    /\ pc = "update"
    /\ IF ReadingAnalysisThrows(analysis)
         THEN /\ Fail("Cannot read properties of null (reading 'summary')")
              /\ UNCHANGED <<documents, updateCalls>>
         ELSE /\ updateCalls' = updateCalls + 1
              /\ \E outcome \in UpdateOutcomes :
                    CASE outcome = "ok" ->
                           /\ documents' =
                                [f \in DOMAIN documents |->
                                    IF Matches(f)
                                      THEN UpdatedRow(documents[f], analysis, analysisMethod)
                                      ELSE documents[f]]
                           /\ pc' = "respond"
                           /\ response' = response
                      [] outcome = "no_rows" ->
                           /\ documents' = documents
                           /\ pc' = "respond"
                           /\ response' = response
                      [] outcome = "error" ->
                           /\ documents' = documents
                           /\ Fail("Failed to save analysis to database")
    /\ UNCHANGED <<clientVars, other, method, body, env, analysis, analysisMethod, calls, inflight>>

\* Lines 401-419: the success response
Respond ==
    /\ pc = "respond"
    /\ response' = SuccessResponse(analysis, analysisMethod)
    /\ pc' = "done"
    /\ UNCHANGED <<clientVars, other, method, body, env, analysis, analysisMethod, calls, inflight,
                   documents, updateCalls>>

Next ==
    \/ Receive
    \/ AttemptPrimary
    \/ PrimaryReturns
    \/ AttemptFallback
    \/ FallbackReturns
    \/ BasicFallback
    \/ UpdateDocument
    \/ Respond

Spec == Init /\ [][Next]_vars

-----------------------------------------------------------------------------
(* The same handler on requests whose content is as long as the prompt     *)
(* limit and whose mimeType exercises the label precedence                 *)

\* Content lengths range over TruncationLimit - LongSlack .. TruncationLimit + LongSlack
LongSlack == 1

\* A text of n characters in which neighbouring characters differ
Text(n) == [i \in 1..n |-> IF i % 3 = 0 THEN "c" ELSE IF i % 3 = 1 THEN "a" ELSE "b"]

HelloWorld == <<"h","e","l","l","o"," ","w","o","r","l","d">>

LongContents ==
    {Str(Text(n)) : n \in (TruncationLimit - LongSlack)..(TruncationLimit + LongSlack)}

MimeTextPdf  == <<"t","e","x","t","/","p","d","f">>
MimeUpperPdf == <<"a","p","p","l","i","c","a","t","i","o","n","/","P","D","F">>
MimeImageText == <<"i","m","a","g","e","/","t","e","x","t">>
MimeEmpty == <<>>
PromptMimeTypes ==
    {Str(m) : m \in {MimePdf, MimeText, MimeImage, MimeZip, MimeTextPdf, MimeUpperPdf,
                     MimeImageText, MimeEmpty}}

PromptBodies ==
    [kind : {"object"}, fileId : {Str("f1")}, content : LongContents,
     fileName : {Str("hello.txt")}, mimeType : {Str(MimePdf), Str(MimeText)}]
    \cup
    [kind : {"object"}, fileId : {Str("f1")}, content : {Str(HelloWorld)},
     fileName : {Str("hello.txt")}, mimeType : PromptMimeTypes]

InitPrompt ==
    /\ method = "POST"
    /\ body \in PromptBodies
    /\ env \in [OLLAMA_URL : {EnvUnset, EnvVal("disabled")},
                OPENAI_API_KEY : {EnvUnset, EnvVal("sk-test")}]
    /\ pc = "request"
    /\ analysis = NoAnalysis
    /\ analysisMethod = "fallback"
    /\ calls = <<>>
    /\ inflight = {}
    /\ documents = [f \in FileIds |-> InitialRow]
    /\ updateCalls = 0
    /\ response = NoResponse
    /\ other = NoCall
    /\ ClientIdle

SpecPrompt == InitPrompt /\ [][Next]_vars

-----------------------------------------------------------------------------
(* Vocabulary of the properties *)

Done == pc = "done"
Succeeded == Done /\ response.success = "true"
ValidRequest ==
    /\ method = "POST" /\ body.kind = "object"
    /\ Truthy(body.fileId) /\ Truthy(body.content)
    /\ body.fileName.t = "string" /\ body.mimeType.t = "string"

\* The analysis step is over: analysis and analysisMethod are final
Analyzed == pc \in {"update", "respond"} \/ Succeeded

CallsOf(provider) == {i \in 1..Len(calls) : calls[i].provider = provider}
Failed(provider) == \E i \in CallsOf(provider) : calls[i].outcome = "threw"
Returned(provider, phase) ==
    \E i \in CallsOf(provider) : calls[i].phase = phase /\ calls[i].outcome = "returned"

TypeOK ==
    /\ pc \in {"request", "primary", "await_primary", "fallback", "await_fallback",
               "basic", "update", "respond", "done"}
    /\ inflight \subseteq {"ollama", "openai"}
    /\ analysisMethod \in {"fallback", "ollama", "openai", "openai_fallback",
                           "ollama_fallback", "basic_fallback"}
    /\ updateCalls \in 0..1

Providers == {"ollama", "openai"}
Other(provider) == IF provider = "ollama" THEN "openai" ELSE "ollama"

\* A provider is configured: Ollama's base URL is not the 'disabled'
\* sentinel, OpenAI's API key is present.
Configured(provider) ==
    IF provider = "ollama" THEN ollamaUrl # "disabled" ELSE openAIApiKey

\* The request passed the required-field check of line 191
Accepted ==
    /\ method = "POST" /\ body.kind = "object"
    /\ Truthy(body.fileId) /\ Truthy(body.content)

\* The first try block has been entered and left
PastPrimary == Accepted /\ pc \notin {"request", "primary", "await_primary"}

\* The fallback try block has been entered and its branch chosen
PastFallbackChoice == Accepted /\ pc \in {"await_fallback", "basic", "update", "respond", "done"}

\* The preferred provider was invoked and its call threw
PreferredFailed == Len(calls) >= 1 /\ calls[1].phase = "primary" /\ calls[1].outcome = "threw"

-----------------------------------------------------------------------------
(* C1..C10: the fallback chain *)

\* C1: for a request that carries fileId, content, fileName and mimeType, the
\* analysis returned in the response and the analysis written to a document
\* row always have summary, key_points, document_type, confidence and topics.
C1_NoPartialAnalysis ==
    ValidRequest =>
        /\ Succeeded => RequiredKeys \subseteq response.analysis.keys
        /\ \A f \in FileIds :
              documents[f].status = "uploaded" =>
                 /\ {"extracted_text", "doc_type", "confidence"} \subseteq documents[f].cols
                 /\ {"key_points", "topics"} \subseteq documents[f].ekeys

\* C2: for a valid request no provider outcome makes the handler answer
\* success:false: the only failure such a request can get is the failed
\* documents update.
C2_NoProviderFailurePropagated ==
    (ValidRequest /\ Done /\ response.success = "false") =>
        response.error = "Failed to save analysis to database"

\* C3 as stated: when the preferred provider failed and the other provider is
\* configured, the result's analysis_method is the tag of the fallback to the
\* other provider, and each provider was invoked exactly once.
C3_Original ==
    (Analyzed /\ PreferredFailed /\ Configured(Other(calls[1].provider))) =>
        /\ analysisMethod = FallbackMethod(Other(calls[1].provider))
        /\ \A p \in Providers : Cardinality(CallsOf(p)) = 1

\* C3 as amended: when the preferred provider failed and the other provider is
\* configured, each provider was invoked exactly once, and analysis_method is
\* the tag of the fallback to the other provider when that call returned and
\* 'basic_fallback' when it failed as well.
C3_FallbackOrder ==
    (Analyzed /\ PreferredFailed /\ Configured(Other(calls[1].provider))) =>
        /\ \A p \in Providers : Cardinality(CallsOf(p)) = 1
        /\ Len(calls) = 2 /\ calls[2].provider = Other(calls[1].provider)
        /\ calls[2].outcome = "returned" =>
              analysisMethod = (IF calls[2].provider = "openai" THEN "openai_fallback"
                                ELSE "ollama_fallback")
        /\ calls[2].outcome = "threw" => analysisMethod = "basic_fallback"

C3_Witness ==
    /\ Succeeded /\ PreferredFailed /\ Configured("openai")
    /\ calls[1].provider = "ollama"
    /\ analysisMethod = "openai_fallback"

\* C4: once the analysis step is over, every configured provider has failed
\* (or none is configured) if and only if analysis_method is 'basic_fallback'
\* and the confidence is 0.3.
C4_NoProvider ==
    Analyzed =>
        ((\A p \in Providers : Configured(p) => Failed(p))
           <=> (/\ analysisMethod = "basic_fallback"
                /\ HasKey(analysis, "confidence") /\ analysis.confidence = 3))

C4_Witness ==
    /\ Succeeded /\ analysisMethod = "basic_fallback"
    /\ response.analysis.confidence = 3
    /\ Len(calls) = 2 /\ Failed("ollama") /\ Failed("openai")

\* C5: in one execution each provider is invoked at most once
C5_AtMostOnce ==
    \A p \in Providers : Cardinality(CallsOf(p)) <= 1

C5_Witness ==
    /\ Done /\ Len(calls) = 2
    /\ calls[1].outcome = "threw" /\ calls[2].outcome = "threw"
    /\ calls[1].provider # calls[2].provider

\* C6: after the preferred provider failed, the other provider is invoked if
\* and only if it is configured; when it is not, there is no second provider
\* call and the result is the synthetic one.
C6_FallbackIffConfigured ==
    (PastFallbackChoice /\ PreferredFailed) =>
        /\ (\E i \in 2..Len(calls) : calls[i].provider = Other(calls[1].provider))
              <=> Configured(Other(calls[1].provider))
        /\ ~Configured(Other(calls[1].provider)) =>
              /\ Len(calls) = 1
              /\ Analyzed => analysisMethod = "basic_fallback"
                             /\ WithoutTimestamp(analysis) = BasicAnalysis

C6_Witness ==
    /\ Succeeded /\ PreferredFailed /\ calls[1].provider = "ollama"
    /\ ~Configured("openai") /\ Len(calls) = 1
    /\ analysisMethod = "basic_fallback"

\* C7: at most one provider call is in flight; a fallback call is started only
\* after every earlier call has failed, and never after the preferred
\* provider's call returned.
C7_Sequential ==
    /\ Cardinality(inflight) <= 1
    /\ \A i \in 1..Len(calls) :
          calls[i].phase = "fallback" =>
             \A j \in 1..(i - 1) : calls[j].outcome = "threw"
    /\ (\E i \in 1..Len(calls) : calls[i].phase = "primary" /\ calls[i].outcome = "returned")
          => \A i \in 1..Len(calls) : calls[i].phase # "fallback"

C7_Witness ==
    /\ pc = "await_fallback" /\ inflight = {"openai"}
    /\ Len(calls) = 2 /\ calls[1].provider = "ollama" /\ calls[1].outcome = "threw"

\* C8: once the analysis step is over, analysis_method names the branch that
\* produced the analysis; it is never the placeholder 'fallback', and the
\* response carries it.
C8_MethodNamesBranch ==
    Analyzed =>
        /\ analysisMethod = "ollama" <=> Returned("ollama", "primary")
        /\ analysisMethod = "openai" <=> Returned("openai", "primary")
        /\ analysisMethod = "openai_fallback"
              <=> (PreferredFailed /\ calls[1].provider = "ollama"
                   /\ Returned("openai", "fallback"))
        /\ analysisMethod = "ollama_fallback"
              <=> (PreferredFailed /\ calls[1].provider = "openai"
                   /\ Returned("ollama", "fallback"))
        /\ analysisMethod = "basic_fallback" <=> WithoutTimestamp(analysis) = BasicAnalysis
        /\ analysisMethod # "fallback"
        /\ Succeeded =>
              /\ "analysis_method" \in response.analysis.keys
              /\ response.analysis.analysis_method = analysisMethod

C8_Witness ==
    /\ Succeeded /\ response.analysis.analysis_method = "openai_fallback"
    /\ Failed("ollama") /\ Returned("openai", "fallback")

\* C9: an object that a provider's response parses to and that lacks a
\* required key is never used as the analysis.
C9_MissingKeysIsFailure ==
    (Analyzed /\ analysis.t = "object") => RequiredKeys \subseteq analysis.keys

\* C10 as stated: Ollama is the first provider attempted when its base URL is
\* not 'disabled', otherwise OpenAI is attempted first; with 'disabled' Ollama
\* is never called.
C10_Original ==
    PastPrimary =>
        /\ Len(calls) >= 1
        /\ calls[1].provider = (IF useOllama THEN "ollama" ELSE "openai")
        /\ ~useOllama => CallsOf("ollama") = {}

\* C10 as amended: Ollama is the first provider attempted when its base URL is
\* not 'disabled'; otherwise OpenAI is attempted first when its API key is
\* present and no provider is attempted when it is not; with 'disabled' Ollama
\* is never called.
C10_Preference ==
    /\ PastPrimary =>
          /\ useOllama => Len(calls) >= 1 /\ calls[1].provider = "ollama"
          /\ (~useOllama /\ openAIApiKey) => Len(calls) >= 1 /\ calls[1].provider = "openai"
          /\ (~useOllama /\ ~openAIApiKey) => calls = <<>>
    /\ ollamaUrl = "disabled" => CallsOf("ollama") = {}

C10_Witness ==
    /\ Succeeded /\ ollamaUrl = "disabled"
    /\ Len(calls) = 1 /\ calls[1].provider = "openai" /\ calls[1].outcome = "returned"

-----------------------------------------------------------------------------
(* Two invocations of the handler on one deployment: they share Deno.env   *)
(* and the documents table, everything else is local to each.  The         *)
(* runtime runs one of them at a time and changes over at an await (the    *)
(* request not yet read, a fetch or the update pending) or at the end.     *)

CurrentCall ==
    Locals(method, body, pc, analysis, analysisMethod, calls, inflight, updateCalls,
           response)

AwaitPoints == {"request", "await_primary", "await_fallback", "update", "done"}

Switch ==
    /\ pc \in AwaitPoints
    /\ other.pc # "done"
    /\ other' = CurrentCall
    /\ method' = other.method
    /\ body' = other.body
    /\ pc' = other.pc
    /\ analysis' = other.analysis
    /\ analysisMethod' = other.analysisMethod
    /\ calls' = other.calls
    /\ inflight' = other.inflight
    /\ updateCalls' = other.updateCalls
    /\ response' = other.response
    /\ UNCHANGED <<clientVars, env, documents>>

TwoBody(f, m) ==
    [kind |-> "object", fileId |-> Str(f), content |-> Str(<<"x">>),
     fileName |-> Str("hello.txt"), mimeType |-> Str(m)]

InitTwo ==
    /\ method = "POST"
    /\ body \in {TwoBody("f1", m) : m \in {MimePdf, MimeText}}
    /\ other \in {NewCall("POST", TwoBody(f, m)) : f \in FileIds, m \in {MimePdf, MimeText}}
    /\ env \in [OLLAMA_URL : {EnvUnset, EnvVal("disabled")},
                OPENAI_API_KEY : {EnvUnset, EnvVal("sk-test")}]
    /\ pc = "request"
    /\ analysis = NoAnalysis
    /\ analysisMethod = "fallback"
    /\ calls = <<>>
    /\ inflight = {}
    /\ documents = [f \in FileIds |-> InitialRow]
    /\ updateCalls = 0
    /\ response = NoResponse
    /\ ClientIdle

NextTwo ==
    \/ Receive
    \/ AttemptPrimary
    \/ PrimaryReturns
    \/ AttemptFallback
    \/ FallbackReturns
    \/ BasicFallback
    \/ UpdateDocument
    \/ Respond
    \/ Switch

SpecTwo == InitTwo /\ [][NextTwo]_vars

-----------------------------------------------------------------------------
(* C11..C20: prompts, the basic analysis, the caller-facing surface *)

\* w occurs in m at some position (character by character, case-sensitive)
OccursIn(w, m) ==
    \E i \in 1..Len(m) :
        /\ i + Len(w) - 1 <= Len(m)
        /\ \A k \in 1..Len(w) : m[i + k - 1] = w[k]

\* The calls whose prompt was built and sent
Prompted == {i \in 1..Len(calls) : calls[i].prompt.template # "none"}

\* The calls whose prompt is on its way to the provider
BeingSent == {i \in Prompted : calls[i].outcome = "pending"}

\* C11: the prompt sent to any provider embeds the first 8000 characters of
\* the content followed by the truncation marker when the content is longer
\* than 8000, and the whole content and no marker when it is not (length
\* exactly 8000 included).  Every prompt is looked at while its fetch is
\* pending.
C11_Truncation ==
    \A i \in BeingSent :
        IF Len(body.content.v) > 8000
          THEN /\ Len(calls[i].prompt.text) = 8000
               /\ \A k \in 1..8000 : calls[i].prompt.text[k] = body.content.v[k]
               /\ calls[i].prompt.marker = "\n... (content truncated)"
          ELSE /\ Len(calls[i].prompt.text) = Len(body.content.v)
               /\ \A k \in 1..Len(body.content.v) :
                     calls[i].prompt.text[k] = body.content.v[k]
               /\ calls[i].prompt.marker = ""

C11_Witness ==
    /\ Len(body.content.v) = 8001
    /\ Prompted = {1, 2} /\ BeingSent = {2}
    /\ calls[1].provider = "ollama" /\ calls[2].provider = "openai"
    /\ Len(calls[2].prompt.text) = 8000
    /\ calls[2].prompt.marker = "\n... (content truncated)"

\* C12: the label in every prompt is 'PDF document' if mimeType contains
\* "pdf", else 'text document' if it contains "text", else 'image document'
\* if it contains "image", else 'document' (case-sensitive); the prompts of
\* the two providers carry the same label.
C12_Label ==
    /\ \A i \in Prompted :
          calls[i].prompt.label =
             (IF OccursIn(<<"p","d","f">>, body.mimeType.v) THEN "PDF document"
              ELSE IF OccursIn(<<"t","e","x","t">>, body.mimeType.v) THEN "text document"
              ELSE IF OccursIn(<<"i","m","a","g","e">>, body.mimeType.v) THEN "image document"
              ELSE "document")
    /\ \A i, j \in Prompted : calls[i].prompt.label = calls[j].prompt.label

C12_Witness ==
    /\ body.mimeType.v = MimeTextPdf
    /\ Prompted = {1, 2}
    /\ calls[1].provider = "ollama" /\ calls[1].prompt.label = "PDF document"
    /\ calls[2].provider = "openai" /\ calls[2].prompt.label = "PDF document"

\* C13: the synthetic result has document_type 'report' iff mimeType
\* contains "pdf" and 'other' otherwise, its key_points name the mimeType and
\* the character count of the whole content, and for a request that has
\* fileName and mimeType the analysis step never ends without a result.
C13_SyntheticFromMetadata ==
    /\ (Analyzed /\ analysisMethod = "basic_fallback") =>
          /\ analysis.document_type =
                (IF OccursIn(<<"p","d","f">>, body.mimeType.v) THEN "report" ELSE "other")
          /\ \E k \in 1..Len(analysis.key_points) :
                analysis.key_points[k] = <<"File type detected: ", body.mimeType.v>>
          /\ \E k \in 1..Len(analysis.key_points) :
                analysis.key_points[k] =
                    <<"Content length: ", Len(body.content.v), " characters">>
    /\ (ValidRequest /\ Done) => analysisMethod # "fallback"

C13_Witness ==
    /\ Succeeded /\ analysisMethod = "basic_fallback"
    /\ body.mimeType.v = MimePdf /\ Len(body.content.v) = 8001
    /\ response.analysis.document_type = "report"
    /\ response.analysis.key_points[3] = <<"Content length: ", 8001, " characters">>

\* C15: a request that lacks fileId or content is answered with success:false
\* and the error message at once: no provider is called and no document row
\* is updated.
C15_MissingField ==
    (method = "POST" /\ body.kind = "object"
       /\ (body.fileId.t = "undefined" \/ body.content.t = "undefined")) =>
        /\ pc \in {"request", "done"}
        /\ calls = <<>> /\ inflight = {} /\ updateCalls = 0
        /\ documents = [f \in FileIds |-> InitialRow]
        /\ analysis = NoAnalysis
        /\ Done => /\ response.success = "false"
                   /\ response.error = "Missing required fields: fileId and content"

C15_Witness ==
    /\ Done /\ method = "POST" /\ body.kind = "object"
    /\ Truthy(body.fileId) /\ body.content.t = "undefined"
    /\ response.success = "false" /\ calls = <<>>

\* C16: a request whose content is the empty string, with fileId, fileName
\* and mimeType present, gets an analysis: the only failure it can meet is
\* the failed documents update.
C16_EmptyTextValid ==
    (Done /\ method = "POST" /\ body.kind = "object" /\ Truthy(body.fileId)
       /\ body.content = Str(<<>>)
       /\ body.fileName.t = "string" /\ body.mimeType.t = "string") =>
        \/ response.success = "true"
        \/ response.error = "Failed to save analysis to database"

\* C17: a non-OPTIONS request gets no response before the handler ends, the
\* handler can always go on until it ends, and it ends with either
\* success:true and an analysis object or success:false and an error message.
C17_ExactlyOneResponse ==
    method = "POST" =>
        /\ ~Done => response = NoResponse /\ ENABLED Next
        /\ Done =>
              \/ /\ response.success = "true"
                 /\ "analysis_method" \in response.analysis.keys
                 /\ response.error = ""
              \/ /\ response.success = "false"
                 /\ response.error # ""
                 /\ response.analysis = NoResponseAnalysis

C17_Witness ==
    /\ Done /\ method = "POST" /\ body.kind = "malformed"
    /\ response.success = "false" /\ response.status = 500

\* C18: the documents update is issued at most once; when it fails the
\* handler ends with 'Failed to save analysis to database', and from the
\* update on no provider is called.
C18_PersistenceFailure ==
    /\ [][(pc = "update" /\ updateCalls' = updateCalls + 1 /\ pc' = "done") =>
             /\ response'.success = "false"
             /\ response'.error = "Failed to save analysis to database"
             /\ calls' = calls /\ inflight' = {}]_vars
    /\ [][updateCalls >= 1 => (updateCalls' = 1 /\ calls' = calls /\ inflight' = {})]_vars
    /\ [](updateCalls <= 1)

C18_Witness ==
    /\ Done /\ updateCalls = 1
    /\ response.success = "false"
    /\ response.error = "Failed to save analysis to database"
    /\ analysisMethod = "ollama"
    /\ documents = [f \in FileIds |-> InitialRow]

\* C20: the confidence of every returned and of every persisted analysis lies
\* between 0.0 and 1.0.
C20_ConfidenceInRange ==
    /\ (Succeeded /\ "confidence" \in response.analysis.keys) =>
          response.analysis.confidence \in 0..10
    /\ \A f \in FileIds :
          "confidence" \in documents[f].cols => documents[f].confidence \in 0..10

\* The two invocations
BothCalls == {CurrentCall, other}

\* A result without the embedded timestamp (metadata.processed_at)
ResultWithoutTimestamp(r) ==
    [r EXCEPT !.metadata = IF Len(@) = 8 /\ @[5] = "processed_at"
                             THEN SubSeq(@, 1, 4) \o SubSeq(@, 7, 8)
                             ELSE @]

\* C14: two calls with identical input and no configured provider return
\* results that are equal in every field except the embedded timestamp.
C14_SyntheticIdempotent ==
    (/\ ~Configured("ollama") /\ ~Configured("openai")
     /\ body = other.body
     /\ Succeeded /\ other.pc = "done" /\ other.response.success = "true") =>
        /\ response.analysis.analysis_method = "basic_fallback"
        /\ ResultWithoutTimestamp(response.analysis)
             = ResultWithoutTimestamp(other.response.analysis)

C14_Witness ==
    /\ ~Configured("ollama") /\ ~Configured("openai")
    /\ body = other.body
    /\ Succeeded /\ other.pc = "done" /\ other.response.success = "true"
    /\ response.analysis.metadata[6] # other.response.analysis.metadata[6]
    /\ response.analysis.summary = other.response.analysis.summary

\* The tag of an invocation follows from its own provider calls
OwnMethod(c) ==
    IF \E i \in 1..Len(c.calls) : c.calls[i].outcome = "returned"
      THEN LET i == CHOOSE i \in 1..Len(c.calls) : c.calls[i].outcome = "returned"
           IN  IF c.calls[i].phase = "primary" THEN c.calls[i].provider
               ELSE IF c.calls[i].provider = "openai" THEN "openai_fallback"
               ELSE "ollama_fallback"
      ELSE "basic_fallback"

\* The documents row an invocation writes, from its own analysis
OwnRow(c) ==
    [status |-> "uploaded",
     extracted_text |-> c.analysis.summary,
     doc_type |-> c.analysis.document_type,
     analysis_method |-> c.analysisMethod,
     topics |-> c.analysis.topics]

RowWritten(row) ==
    [status |-> row.status, extracted_text |-> row.extracted_text,
     doc_type |-> row.doc_type, analysis_method |-> row.analysis_method,
     topics |-> row.topics]

\* C19: with two calls interleaved, each call's analysis_method and returned
\* analysis follow from its own provider calls and its own analysis, and a
\* document row changes only through a call whose fileId is the row's
\* file_id, to what that call wrote.
C19_Independent ==
    /\ \A c \in BothCalls :
          /\ (c.pc \in {"update", "respond"} \/ (c.pc = "done" /\ c.response.success = "true"))
                => c.analysisMethod = OwnMethod(c)
          /\ (c.pc = "done" /\ c.response.success = "true")
                => c.response.analysis = ResponseAnalysis(c.analysis, c.analysisMethod)
    /\ Analyzed /\ analysisMethod = "basic_fallback"
          => WithoutTimestamp(analysis) = BasicAnalysis
    /\ \A f \in FileIds :
          documents[f] # InitialRow =>
             \E c \in BothCalls :
                /\ c.body.fileId.v = f
                /\ c.updateCalls = 1
                /\ c.analysis.t \in {"object", "scalar"}
                /\ c.analysis.keys = AllKeys => RowWritten(documents[f]) = OwnRow(c)

C19_Witness ==
    /\ body.fileId.v # other.body.fileId.v
    /\ Succeeded /\ other.pc = "done" /\ other.response.success = "true"
    /\ analysisMethod # other.analysisMethod
    /\ documents[body.fileId.v].analysis_method = analysisMethod
    /\ documents[other.body.fileId.v].analysis_method = other.analysisMethod

-----------------------------------------------------------------------------
(* Row level security on public.documents (the migration that adds        *)
(* user_id and the four policies), the statements the browser client      *)
(* (lib/api.ts) and the analyze-document handler run on the table, and     *)
(* the statements any holder of the public anon key can run directly.      *)

\* auth.users, and auth.uid() of a session with no authenticated user
Users == {"u1", "u2"}
Null == "null"
Sessions == Users \cup {Null}

\* documents.status as the code writes it
Statuses == {"processing", "uploaded", "failed"}

MaxRows == 2

DbRow(f, u, s) == [file_id |-> f, user_id |-> u, status |-> s]

\* (mutant: NULL compares equal to NULL)
SqlEq_NullEqualsNull(a, b) == a = b

\* SQL `a = b` in a USING / WITH CHECK / WHERE clause: true only when
\* neither side is NULL
SqlEq(a, b) == a # Null /\ b # Null /\ a = b

\* USING (auth.uid() = user_id) of the SELECT, UPDATE and DELETE policies
Using(uid, row) == SqlEq(uid, row.user_id)

\* WITH CHECK (auth.uid() = user_id) of the INSERT policy (and of the UPDATE
\* policy, whose check defaults to its USING expression)
WithCheck(uid, row) == SqlEq(uid, row.user_id)

AnyValue == "any"
Filters == [file_id : FileIds \cup {AnyValue}, user_id : Sessions \cup {AnyValue}]

\* The .eq() filters of a query
Where(filter, row) ==
    /\ filter.file_id = AnyValue \/ SqlEq(filter.file_id, row.file_id)
    /\ filter.user_id = AnyValue \/ SqlEq(filter.user_id, row.user_id)

\* The record of a statement: who ran it, the rows it returned and the
\* rows that are in the table before it and not after it, or after it and
\* not before it
Statement(op, uid, returned, error) ==
    [op |-> op, uid |-> uid, returned |-> returned,
     changed |-> (publicDocuments \ publicDocuments') \cup
                 (publicDocuments' \ publicDocuments),
     error |-> error]

\* A client-side throw before any statement is sent
NotAuthenticated(op) ==
    /\ publicDocuments' = publicDocuments
    /\ lastOp' = Statement(op, Null, {}, TRUE)

DbSelect(op, uid, filter) ==
    /\ publicDocuments' = publicDocuments
    /\ lastOp' = Statement(op, uid,
                           {r \in publicDocuments : Where(filter, r) /\ Using(uid, r)},
                           FALSE)

DbInsert(op, uid, row) ==
    IF WithCheck(uid, row)
      THEN /\ publicDocuments' = publicDocuments \cup {row}
           /\ lastOp' = Statement(op, uid, {}, FALSE)
      ELSE /\ publicDocuments' = publicDocuments
           /\ lastOp' = Statement(op, uid, {}, TRUE)

DbUpdate(op, uid, filter, status) ==
    LET hit == {r \in publicDocuments : Where(filter, r) /\ Using(uid, r)}
        new == {[r EXCEPT !.status = status] : r \in hit}
    IN  /\ publicDocuments' =
              (publicDocuments \ hit) \cup {r \in new : WithCheck(uid, r)}
        /\ lastOp' = Statement(op, uid, {}, FALSE)

DbDelete(op, uid, filter) ==
    /\ publicDocuments' =
          {r \in publicDocuments : ~(Where(filter, r) /\ Using(uid, r))}
    /\ lastOp' = Statement(op, uid, {}, FALSE)

\* fileApi.getFiles: select('*').eq('user_id', user.id)
GetFiles ==
    /\ \E uid \in Sessions :
          IF uid = Null
            THEN NotAuthenticated("getFiles")
            ELSE DbSelect("getFiles", uid, [file_id |-> AnyValue, user_id |-> uid])
    /\ UNCHANGED <<handlerVars, listVars, feedbackVars, chunkVars, uploadVars, apiVars>>

\* fileApi.getFileDetails: select('*').eq('file_id', fileId).eq('user_id', user.id)
GetFileDetails ==
    /\ \E uid \in Sessions, f \in FileIds :
          IF uid = Null
            THEN NotAuthenticated("getFileDetails")
            ELSE DbSelect("getFileDetails", uid, [file_id |-> f, user_id |-> uid])
    /\ UNCHANGED <<handlerVars, listVars, feedbackVars, chunkVars, uploadVars, apiVars>>

\* fileApi.deleteFile: delete().eq('file_id', fileId).eq('user_id', user.id)
DeleteFile ==
    /\ \E uid \in Sessions, f \in FileIds :
          IF uid = Null
            THEN NotAuthenticated("deleteFile")
            ELSE DbDelete("deleteFile", uid, [file_id |-> f, user_id |-> uid])
    /\ UNCHANGED <<handlerVars, listVars, feedbackVars, chunkVars, uploadVars, apiVars>>

\* fileApi.uploadFiles: insert({file_id, user_id: user.id, status: 'processing'})
InsertDocument ==
    /\ Cardinality(publicDocuments) < MaxRows
    /\ \E uid \in Sessions, f \in FileIds :
          IF uid = Null
            THEN NotAuthenticated("uploadFiles")
            ELSE DbInsert("uploadFiles", uid, DbRow(f, uid, "processing"))
    /\ UNCHANGED <<handlerVars, listVars, feedbackVars, chunkVars, uploadVars, apiVars>>

\* fileApi.uploadFiles after a function error:
\* update({status: 'failed'}).eq('file_id', fileId), in the user's session
MarkFailed ==
    /\ \E uid \in Sessions, f \in FileIds :
          DbUpdate("markFailed", uid, [file_id |-> f, user_id |-> AnyValue], "failed")
    /\ UNCHANGED <<handlerVars, listVars, feedbackVars, chunkVars, uploadVars, apiVars>>

\* The analyze-document handler: createClient(url, anon key) with no user
\* token, then update({..., status: 'uploaded'}).eq('file_id', fileId)
AnalyzeUpdate ==
    /\ \E f \in FileIds :
          DbUpdate("analyze-document", Null, [file_id |-> f, user_id |-> AnyValue], "uploaded")
    /\ UNCHANGED <<handlerVars, listVars, feedbackVars, chunkVars, uploadVars, apiVars>>

\* Statements sent directly with the public anon key, by any session, with
\* any filter and any row
DirectStatement ==
    /\ \E uid \in Sessions :
          \/ \E filter \in Filters : DbSelect("select", uid, filter)
          \/ /\ Cardinality(publicDocuments) < MaxRows
             /\ \E f \in FileIds, owner \in Sessions, st \in Statuses :
                   DbInsert("insert", uid, DbRow(f, owner, st))
          \/ \E filter \in Filters, st \in Statuses : DbUpdate("update", uid, filter, st)
          \/ \E filter \in Filters : DbDelete("delete", uid, filter)
    /\ UNCHANGED <<handlerVars, listVars, feedbackVars, chunkVars, uploadVars, apiVars>>

\* The handler is not running
HandlerIdle ==
    /\ method = "OPTIONS"
    /\ body = MalformedBody
    /\ env = [OLLAMA_URL |-> EnvUnset, OPENAI_API_KEY |-> EnvUnset]
    /\ pc = "done"
    /\ analysis = NoAnalysis
    /\ analysisMethod = "fallback"
    /\ calls = <<>>
    /\ inflight = {}
    /\ documents = [f \in FileIds |-> InitialRow]
    /\ updateCalls = 0
    /\ response = CorsResponse
    /\ other = NoCall

InitRls ==
    /\ HandlerIdle
    \* rows that were in the table before user_id was added have user_id NULL
    /\ publicDocuments \in SUBSET {DbRow(f, Null, "uploaded") : f \in FileIds}
    /\ lastOp = NoOp
    /\ UploadIdle
    /\ ApiIdle
    /\ RestIdle({})

NextRls ==
    \/ GetFiles
    \/ GetFileDetails
    \/ DeleteFile
    \/ InsertDocument
    \/ MarkFailed
    \/ AnalyzeUpdate
    \/ DirectStatement

SpecRls == InitRls /\ [][NextRls]_vars

\* The rows the last statement returned, added, changed or removed
Touched == lastOp.returned \cup lastOp.changed

\* C21: a statement on public.documents returns, adds, changes or removes
\* only rows whose user_id is the id of the acting session's user, and a
\* session with no authenticated user touches no row.
C21_RowIsolation ==
    \A r \in Touched : lastOp.uid # Null /\ r.user_id = lastOp.uid

\* u1 deleted a row of theirs while u2 had a row with the same file_id,
\* which is still there
C21_Witness ==
    /\ lastOp.op = "delete" /\ lastOp.uid = "u1"
    /\ \E r \in lastOp.changed :
          /\ r.user_id = "u1"
          /\ \E q \in publicDocuments : q.user_id = "u2" /\ q.file_id = r.file_id

-----------------------------------------------------------------------------
(* The FileUpload component (components/FileUpload.tsx): the upload queue, *)
(* the drop zone, the upload button and its uploadFiles handler, the       *)
(* progress callback it hands to fileApi.uploadFiles and the timer that    *)
(* clears the queue.  Queue ids are the drop numbers; `sent` counts, per   *)
(* id, the calls of fileApi.uploadFiles that carried the file and the      *)
(* non-failed results (each is one inserted documents row).                *)

MaxDrops == 3

\* The File objects the user drops, by name
DroppedFiles == {"a.txt", "b.txt"}

\* The progress values fileApi.uploadFiles reports
ProgressSteps == {0, 25, 50, 75, 100}

\* Lines 27-36
onDrop ==
    /\ Len(sent.times) < MaxDrops
    /\ \E file \in DroppedFiles :
          filesWithProgress' =
              Append(filesWithProgress,
                     [id |-> Len(sent.times) + 1, file |-> file, progress |-> 0,
                      status |-> "pending"])
    /\ sent' = [sent EXCEPT !.times = Append(@, 0), !.rows = Append(@, 0)]
    /\ UNCHANGED <<handlerVars, listVars, feedbackVars, chunkVars, dbVars, apiVars, isUploading, uploadCall, clearTimers, lastReport>>

\* Lines 50-52; the remove button is rendered for pending entries (line 208)
removeFile ==
    /\ \E i \in 1..Len(filesWithProgress) :
          /\ filesWithProgress[i].status = "pending"
          /\ filesWithProgress' =
                SubSeq(filesWithProgress, 1, i - 1) \o
                SubSeq(filesWithProgress, i + 1, Len(filesWithProgress))
    /\ UNCHANGED <<handlerVars, listVars, feedbackVars, chunkVars, dbVars, apiVars, isUploading, uploadCall, clearTimers, sent,
                   lastReport>>

\* Lines 54-77, up to the await; the button is enabled by line 225
uploadFiles ==
    /\ ~isUploading
    /\ \E i \in 1..Len(filesWithProgress) : filesWithProgress[i].status = "pending"
    /\ isUploading' = TRUE
    /\ filesWithProgress' =
          [i \in 1..Len(filesWithProgress) |->
              [filesWithProgress[i] EXCEPT !.status = "uploading"]]
    /\ uploadCall' =
          [active |-> TRUE,
           files |-> [i \in 1..Len(filesWithProgress) |->
                         [id |-> filesWithProgress[i].id,
                          file |-> filesWithProgress[i].file]]]
    /\ sent' =
          [sent EXCEPT
              !.times = [id \in 1..Len(@) |->
                            IF \E i \in 1..Len(filesWithProgress) :
                                  filesWithProgress[i].id = id
                              THEN @[id] + 1 ELSE @[id]],
              !.again = @ \cup {filesWithProgress[i].id :
                                  i \in {j \in 1..Len(filesWithProgress) :
                                            filesWithProgress[j].status = "completed"}}]
    /\ UNCHANGED <<handlerVars, listVars, feedbackVars, chunkVars, dbVars, apiVars, clearTimers, lastReport>>

\* files.find(file => file.name === name)?.name of line 70
FoundName(captured, name) ==
    IF \E k \in 1..Len(captured) : captured[k].file = name
      THEN name
      ELSE "undefined"

\* Lines 67-75: a progress timer of fileApi.uploadFiles fires for the k-th
\* file of the call
handleProgress ==
    /\ \E k \in 1..Len(uploadCall.files), progress \in ProgressSteps :
          /\ filesWithProgress' =
                [i \in 1..Len(filesWithProgress) |->
                    IF filesWithProgress[i].file =
                          FoundName(uploadCall.files, filesWithProgress[i].file)
                      THEN [filesWithProgress[i] EXCEPT !.progress = progress]
                      ELSE filesWithProgress[i]]
          /\ lastReport' =
                [id |-> uploadCall.files[k].id,
                 changed |-> {filesWithProgress[i].id :
                                i \in {j \in 1..Len(filesWithProgress) :
                                         filesWithProgress'[j].progress #
                                         filesWithProgress[j].progress}}]
    /\ UNCHANGED <<handlerVars, listVars, feedbackVars, chunkVars, dbVars, apiVars, isUploading, uploadCall, clearTimers, sent>>

\* Lines 77-111 and 124-126: fileApi.uploadFiles has returned its results
uploadFilesResume ==
    /\ uploadCall.active
    /\ \E returned \in [1..Len(uploadCall.files) -> {"success", "failed"}] :
          /\ filesWithProgress' =
                [i \in 1..Len(filesWithProgress) |->
                    [filesWithProgress[i] EXCEPT
                        !.progress = 100,
                        !.status = IF i <= Len(returned) /\ returned[i] = "failed"
                                     THEN "error" ELSE "completed"]]
          /\ sent' =
                [sent EXCEPT
                    !.rows = [id \in 1..Len(@) |->
                                 IF \E k \in 1..Len(returned) :
                                       /\ uploadCall.files[k].id = id
                                       /\ returned[k] = "success"
                                   THEN @[id] + 1 ELSE @[id]]]
    /\ clearTimers' = clearTimers + 1
    /\ isUploading' = FALSE
    /\ uploadCall' = [uploadCall EXCEPT !.active = FALSE]
    /\ UNCHANGED <<handlerVars, listVars, feedbackVars, chunkVars, dbVars, apiVars, lastReport>>

\* Lines 109-111: the timer set by an upload that finished fires
clearQueue ==
    /\ clearTimers > 0
    /\ clearTimers' = clearTimers - 1
    /\ filesWithProgress' = <<>>
    /\ sent' =
          [sent EXCEPT
              !.lost = @ \cup {filesWithProgress[i].id :
                                 i \in {j \in 1..Len(filesWithProgress) :
                                          sent.times[filesWithProgress[j].id] = 0}}]
    /\ UNCHANGED <<handlerVars, listVars, feedbackVars, chunkVars, dbVars, apiVars, isUploading, uploadCall, lastReport>>

InitUpload ==
    /\ HandlerIdle
    /\ DbIdle
    /\ UploadIdle
    /\ ApiIdle
    /\ RestIdle({})

NextUpload ==
    \/ onDrop
    \/ removeFile
    \/ uploadFiles
    \/ handleProgress
    \/ uploadFilesResume
    \/ clearQueue

SpecUpload == InitUpload /\ [][NextUpload]_vars

\* C22: a progress report issued for one file of the queue changes the
\* progress of no other file of the queue.
C22_ProgressPerFile == lastReport.changed \subseteq {lastReport.id}

\* The queue ids fileApi.uploadFiles was called with and answered with a
\* non-failed result
Uploaded == {id \in 1..Len(sent.rows) : sent.rows[id] > 0}

\* C24: a file of the queue is marked 'completed' only if fileApi.uploadFiles
\* was called with it and returned a non-failed result for it, and no file
\* is cleared from the queue without having been passed to it.
C24_CompletedOnlyIfUploaded ==
    /\ \A i \in 1..Len(filesWithProgress) :
          filesWithProgress[i].status = "completed" =>
              filesWithProgress[i].id \in Uploaded
    /\ sent.lost = {}

\* C25: no file already marked 'completed' is passed to fileApi.uploadFiles
\* again, and no file gets a second documents row.
C25_UploadedAtMostOnce ==
    /\ sent.again = {}
    /\ \A id \in 1..Len(sent.rows) : sent.rows[id] <= 1

-----------------------------------------------------------------------------
(* fileApi.uploadFiles (lib/api.ts, lines 54-136): the loop over the       *)
(* files, one try block per file around getUser, the insert of the         *)
(* documents row and the inner try block around the analyze-document       *)
(* invocation.  apiLog keeps, per file, what the awaited calls answered.   *)

MaxFiles == 2

\* crypto.randomUUID() of the k-th iteration: an id no other row has
RandomUUID(k) == "f" \o ToString(k)

\* What functions.invoke('analyze-document') can do to the row and answer:
\* the handler saved its analysis (status 'uploaded'); the handler answered
\* success and its update matched no row; the handler answered an error;
\* the invocation threw
InvokeOutcomes == {"analyzed", "no_rows", "function_error", "threw"}

\* Lines 128-133 and the loop head: push the result, go to the next file or
\* return
PushResult(status) ==
    /\ results' = Append(results, status)
    /\ apiPc' = IF Len(results) + 1 = Len(apiFiles) THEN "returned" ELSE "getUser"

\* Lines 57-69
ApiGetUser ==
    /\ apiPc = "getUser"
    /\ \E user \in Sessions :
          /\ apiLog' = Append(apiLog, [file |-> apiFiles[Len(results) + 1], user |-> user,
                                       insert |-> "none", invoke |-> "none"])
          /\ IF user = Null
               THEN PushResult("failed")
               ELSE apiPc' = "insert" /\ results' = results
    /\ UNCHANGED <<handlerVars, listVars, feedbackVars, chunkVars, uploadVars, dbVars, apiFiles>>

\* Lines 86-100
ApiInsert ==
    /\ apiPc = "insert"
    /\ \E outcome \in {"ok", "error"} :
          LET i == Len(apiLog)
              uid == apiLog[i].user
          IN  /\ IF outcome = "ok"
                   THEN DbInsert("uploadFiles", uid, DbRow(RandomUUID(i), uid, "processing"))
                   ELSE /\ publicDocuments' = publicDocuments
                        /\ lastOp' = Statement("uploadFiles", uid, {}, TRUE)
              /\ apiLog' = [apiLog EXCEPT ![i].insert =
                                IF lastOp'.error THEN "error" ELSE "ok"]
              /\ IF lastOp'.error
                   THEN PushResult("failed")
                   ELSE apiPc' = "invoke" /\ results' = results
    /\ UNCHANGED <<handlerVars, listVars, feedbackVars, chunkVars, uploadVars, apiFiles>>

\* (mutant: the invocation is not inside a try block of its own)
ApiInvoke_NoInnerTry ==
    /\ apiPc = "invoke"
    /\ \E outcome \in InvokeOutcomes :
          LET i == Len(apiLog)
          IN  /\ apiLog' = [apiLog EXCEPT ![i].invoke = outcome]
              /\ publicDocuments' = publicDocuments
              /\ lastOp' = lastOp
              /\ IF outcome = "function_error"
                   THEN apiPc' = "markFailed" /\ results' = results
                 ELSE IF outcome = "threw"
                   THEN PushResult("failed")
                   ELSE PushResult("success")
    /\ UNCHANGED <<handlerVars, listVars, feedbackVars, chunkVars, uploadVars, apiFiles>>

\* Lines 102-121 up to the update of line 115, and lines 119-128
ApiInvoke ==
    /\ apiPc = "invoke"
    /\ \E outcome \in InvokeOutcomes :
          LET i == Len(apiLog)
              mine == [file_id |-> RandomUUID(i), user_id |-> AnyValue]
          IN  /\ apiLog' = [apiLog EXCEPT ![i].invoke = outcome]
              /\ CASE outcome = "analyzed" ->
                        /\ publicDocuments' =
                              {IF Where(mine, r) THEN [r EXCEPT !.status = "uploaded"] ELSE r :
                                 r \in publicDocuments}
                        /\ lastOp' = Statement("analyze-document", Null, {}, FALSE)
                        /\ PushResult("success")
                   [] outcome = "no_rows" ->
                        /\ DbUpdate("analyze-document", Null, mine, "uploaded")
                        /\ PushResult("success")
                   [] outcome = "function_error" ->
                        /\ UNCHANGED dbVars
                        /\ apiPc' = "markFailed" /\ results' = results
                   [] outcome = "threw" ->
                        /\ UNCHANGED dbVars
                        /\ PushResult("success")
    /\ UNCHANGED <<handlerVars, listVars, feedbackVars, chunkVars, uploadVars, apiFiles>>

\* Lines 113-118 and 123-128: the update answers, answers an error (which
\* is not read) or throws into the catch of line 119
ApiMarkFailed ==
    /\ apiPc = "markFailed"
    /\ \E outcome \in {"ok", "error", "threw"} :
          LET i == Len(apiLog)
          IN  IF outcome = "ok"
                THEN DbUpdate("markFailed", apiLog[i].user,
                              [file_id |-> RandomUUID(i), user_id |-> AnyValue], "failed")
                ELSE UNCHANGED dbVars
    /\ PushResult("success")
    /\ UNCHANGED <<handlerVars, listVars, feedbackVars, chunkVars, uploadVars, apiFiles, apiLog>>

InitApi ==
    /\ HandlerIdle
    /\ DbIdle
    /\ UploadIdle
    /\ RestIdle({})
    /\ apiFiles \in UNION {[1..n -> DroppedFiles] : n \in 0..MaxFiles}
    /\ apiPc = IF apiFiles = <<>> THEN "returned" ELSE "getUser"
    /\ results = <<>>
    /\ apiLog = <<>>

NextApi ==
    \/ ApiGetUser
    \/ ApiInsert
    \/ ApiInvoke
    \/ ApiMarkFailed

SpecApi == InitApi /\ [][NextApi]_vars

\* C23: when fileApi.uploadFiles has returned, no row it inserted is still
\* in status 'processing'.
C23_NoRowLeftProcessing ==
    apiPc = "returned" => \A r \in publicDocuments : r.status # "processing"

\* C27: fileApi.uploadFiles returns one result per file, in the order of the
\* files; the result of a file is 'failed' exactly when getUser gave no user
\* or the insert failed for that file, whatever the analysis did, and every
\* file is processed whatever happened to the files before it.
C27_OneResultPerFile ==
    /\ Len(results) <= Len(apiFiles)
    /\ apiPc = "returned" =>
          /\ Len(results) = Len(apiFiles)
          /\ Len(apiLog) = Len(apiFiles)
          /\ \A k \in 1..Len(apiFiles) :
                /\ apiLog[k].file = apiFiles[k]
                /\ results[k] \in {"success", "failed"}
                /\ results[k] = "failed" <=>
                      (apiLog[k].user = Null \/ apiLog[k].insert = "error")

\* Two files: the insert of the first failed, the invocation for the second
\* threw
C27_Witness ==
    /\ apiPc = "returned"
    /\ Len(apiFiles) = 2
    /\ apiLog[1].insert = "error" /\ results[1] = "failed"
    /\ apiLog[2].invoke = "threw" /\ results[2] = "success"

-----------------------------------------------------------------------------
(* The FileList component (components/FileList.tsx, lines 382-438):        *)
(* loadFiles, the effect that calls it when the refresh trigger, the       *)
(* search query or a filter changes, and the realtime subscription whose   *)
(* callback calls the loadFiles of the first render.  A response is named  *)
(* by the number of the request it answers.                                *)

MaxRequests == 4

\* Lines 392-399: loadFiles up to its await, with the searchQuery and the
\* statusFilter of the render its closure belongs to
loadFiles(search, status) ==
    /\ Len(requests) < MaxRequests
    /\ loading' = TRUE
    /\ requests' = Append(requests, [search |-> search, status |-> status,
                                     state |-> "pending"])
    /\ files' = files

\* Line 672 and the effect of lines 413-415
setSearchQuery ==
    /\ \E q \in {"", "inv"} \ {searchQuery} :
          /\ searchQuery' = q
          /\ loadFiles(q, statusFilter)
    /\ UNCHANGED <<handlerVars, dbVars, uploadVars, apiVars, feedbackVars, chunkVars,
                   statusFilter>>

\* Line 678 and the effect of lines 413-415
setStatusFilter ==
    /\ \E f \in {"all", "uploaded"} \ {statusFilter} :
          /\ statusFilter' = f
          /\ loadFiles(searchQuery, f)
    /\ UNCHANGED <<handlerVars, dbVars, uploadVars, apiVars, feedbackVars, chunkVars,
                   searchQuery>>

\* The parent changes refreshTrigger: the effect of lines 413-415
refreshTrigger ==
    /\ loadFiles(searchQuery, statusFilter)
    /\ UNCHANGED <<handlerVars, dbVars, uploadVars, apiVars, feedbackVars, chunkVars,
                   searchQuery, statusFilter>>

\* Lines 418-438: a change of table documents is notified; the callback was
\* created by the effect of the first render (dependencies []), whose
\* loadFiles holds searchQuery '' and statusFilter 'all'
postgres_changes ==
    /\ loadFiles("", "all")
    /\ UNCHANGED <<handlerVars, dbVars, uploadVars, apiVars, feedbackVars, chunkVars,
                   searchQuery, statusFilter>>

\* Lines 395-410: fileApi.getFiles answers a pending request, or throws
getFilesSettles ==
    /\ \E n \in 1..Len(requests), ok \in BOOLEAN :
          /\ requests[n].state = "pending"
          /\ requests' = [requests EXCEPT ![n].state = IF ok THEN "done" ELSE "failed"]
          /\ files' = IF ok THEN n ELSE files
    /\ loading' = FALSE
    /\ UNCHANGED <<handlerVars, dbVars, uploadVars, apiVars, feedbackVars, chunkVars,
                   searchQuery, statusFilter>>

\* FileList mounted: the effect of lines 413-415 has called loadFiles
InitList ==
    /\ HandlerIdle
    /\ DbIdle
    /\ UploadIdle
    /\ ApiIdle
    /\ RestIdle({"list"})
    /\ searchQuery = ""
    /\ statusFilter = "all"
    /\ files = 0
    /\ loading = TRUE
    /\ requests = <<[search |-> "", status |-> "all", state |-> "pending"]>>

NextList ==
    \/ setSearchQuery
    \/ setStatusFilter
    \/ refreshTrigger
    \/ postgres_changes
    \/ getFilesSettles

SpecList == InitList /\ [][NextList]_vars

\* C26: once every loadFiles request has completed, and the last one was
\* answered, the files state holds the response of the request issued
\* last, and that request was made with the current search query and
\* status filter.
C26_NeverStale ==
    (/\ \A n \in 1..Len(requests) : requests[n].state # "pending"
     /\ requests[Len(requests)].state = "done")
    => /\ files = Len(requests)
       /\ requests[files].search = searchQuery
       /\ requests[files].status = statusFilter

-----------------------------------------------------------------------------
(* The process-feedback edge function (supabase/functions/                 *)
(* process-feedback/index.ts): validation, the lookup of the files row,    *)
(* the OpenAI call inside its try block, the update of the row and the     *)
(* response.  Request fields are kept by their truthiness; confidence is   *)
(* counted in tenths.                                                      *)

\* What the OpenAI call can answer: fetch throws; a non-OK status; a body
\* that is not JSON; JSON without choices[0].message; a message without
\* content; a message whose content is null; a message with a text
AiOutcomes == {"network_error", "http_error", "bad_json", "no_choices",
               "no_content", "null_content", "improved"}

\* Lines 126-137
FeedbackFail ==
    /\ fbResponse' = [success |-> FALSE]
    /\ fbPc' = "done"

\* Lines 15-38
FeedbackReceive ==
    /\ fbPc = "request"
    /\ IF \/ ~fbRequest.parsed
          \/ ~fbRequest.fileId \/ fbRequest.feedbackType = "undefined" \/ ~fbRequest.userId
         THEN FeedbackFail /\ fbLog' = fbLog
         ELSE \E lookup \in {"found", "error"} :
                 /\ lookup = "found" => fileRecord.exists
                 /\ fbLog' = [fbLog EXCEPT !.lookup = lookup, !.before = fileRecord]
                 /\ IF lookup = "found"
                      THEN fbPc' = "improve" /\ fbResponse' = fbResponse
                      ELSE FeedbackFail
    /\ UNCHANGED <<handlerVars, dbVars, uploadVars, apiVars, listVars, chunkVars,
                   fbRequest, fbEnv, fileRecord>>

\* Lines 114-124
FeedbackSucceed ==
    /\ fbResponse' = [success |-> TRUE]
    /\ fbPc' = "done"

\* Lines 51-92 and 108-124: the OpenAI call, or no call; the catch of line
\* 108 takes every throw
FeedbackImprove ==
    /\ fbPc = "improve"
    /\ IF fbEnv /\ fbRequest.correctValue
         THEN \E ai \in AiOutcomes :
                 /\ fbLog' = [fbLog EXCEPT !.ai = ai]
                 /\ IF ai \in {"no_content", "null_content", "improved"}
                      THEN fbPc' = "update" /\ fbResponse' = fbResponse
                      ELSE FeedbackSucceed
         ELSE /\ fbLog' = [fbLog EXCEPT !.ai = "skipped"]
              /\ FeedbackSucceed
    /\ UNCHANGED <<handlerVars, dbVars, uploadVars, apiVars, listVars, chunkVars,
                   fbRequest, fbEnv, fileRecord>>

\* The update payload of lines 89-103 applied to the row; a key whose value
\* is undefined is not sent
ImprovedRecord(row, feedbackType, ai) ==
    LET improvedValue == IF ai = "null_content" THEN "null" ELSE "improved"
        confidence == IF row.confidence_score = 0 THEN 5 ELSE row.confidence_score
        updated == [row EXCEPT
                       !.confidence_score = IF confidence + 1 > 10 THEN 10 ELSE confidence + 1,
                       !.feedback_applied = TRUE]
    IN  IF ai = "no_content"
          THEN updated
        ELSE IF feedbackType = "summary"
          THEN [updated EXCEPT !.ai_summary = improvedValue]
          ELSE [updated EXCEPT !.document_classification = improvedValue]

\* Lines 93-124: the update answers, answers an error (which is not read) or
\* throws into the catch of line 108
FeedbackUpdate ==
    /\ fbPc = "update"
    /\ \E outcome \in {"ok", "error", "threw"} :
          fileRecord' = IF outcome = "ok"
                          THEN ImprovedRecord(fileRecord, fbRequest.feedbackType, fbLog.ai)
                          ELSE fileRecord
    /\ FeedbackSucceed
    /\ UNCHANGED <<handlerVars, dbVars, uploadVars, apiVars, listVars, chunkVars,
                   fbRequest, fbEnv, fbLog>>

InitFeedback ==
    /\ HandlerIdle
    /\ DbIdle
    /\ UploadIdle
    /\ ApiIdle
    /\ RestIdle({"feedback"})
    /\ fbRequest \in [parsed : BOOLEAN, fileId : BOOLEAN,
                      feedbackType : {"undefined", "summary", "classification"},
                      userId : BOOLEAN, correctValue : BOOLEAN]
    /\ fbEnv \in BOOLEAN
    /\ fbPc = "request"
    /\ fileRecord \in {[exists |-> FALSE]} \cup
                      [exists : {TRUE}, ai_summary : {"old summary"},
                       document_classification : {"old class"},
                       confidence_score : {0, 5, 10}, feedback_applied : {FALSE}]
    /\ fbLog = [lookup |-> "none", ai |-> "none", before |-> [exists |-> FALSE]]
    /\ fbResponse = [success |-> FALSE]

NextFeedback ==
    \/ FeedbackReceive
    \/ FeedbackImprove
    \/ FeedbackUpdate

SpecFeedback == InitFeedback /\ [][NextFeedback]_vars

\* C28: a request with fileId, feedbackType and userId whose file record
\* was found is answered success:true whatever the AI call did, and when
\* the AI call gave no improved value the file record is as it was.
C28_ContinuesWithoutAI ==
    (fbPc = "done" /\ fbLog.lookup = "found")
    => /\ fbResponse.success
       /\ fbLog.ai # "improved" => fileRecord = fbLog.before

\* ---------------------------------------------------------------------
\* The provider selection as a function of the configuration
\* ---------------------------------------------------------------------

\* The provider the first try block calls and the provider the fallback
\* try block calls ("none": the block throws), for a value of ollamaUrl
\* and the truthiness of openAIApiKey.
ProvidersFor(url, key) ==
    LET use == url # "disabled"
    IN  [primary  |-> IF use THEN "ollama"
                      ELSE IF key THEN "openai"
                      ELSE "none",
         fallback |-> IF use /\ key THEN "openai"
                      ELSE IF ~use /\ url # "disabled" THEN "ollama"
                      ELSE "none"]

\* The selection the handler's steps make is the one ProvidersFor computes.
SelectionIsProvidersFor ==
    ProvidersFor(ollamaUrl, openAIApiKey)
        = [primary |-> PrimaryProvider, fallback |-> FallbackProvider]

\* No run of the handler tags its result 'ollama_fallback'.
NeverOllamaFallback == analysisMethod # "ollama_fallback"

\* C29: each of the five tags ollama, openai, openai_fallback,
\* ollama_fallback and basic_fallback is produced under some configuration
\* and some provider outcomes; in particular, where OpenAI has been
\* attempted first and has failed, some value of OLLAMA_URL beside the
\* same key has Ollama attempted next as the fallback.
C29_EveryBranchReachable ==
    LET Urls == {EnvOr(e, DefaultOllamaUrl) : e \in OllamaUrlEnv}
        BranchesOf(url, key) ==
            LET p == ProvidersFor(url, key)
            IN  (IF p.primary = "none" THEN {} ELSE {PrimaryMethod(p.primary)})
                \cup (IF p.fallback = "none" THEN {}
                                             ELSE {FallbackMethod(p.fallback)})
                \cup {"basic_fallback"}
    IN  (/\ Len(calls) >= 1
         /\ calls[1].provider = "openai"
         /\ calls[1].outcome = "threw")
        => /\ \A tag \in {"ollama", "openai", "openai_fallback",
                           "ollama_fallback", "basic_fallback"} :
                 \E url \in Urls, key \in BOOLEAN : tag \in BranchesOf(url, key)
           /\ \E url \in Urls :
                 ProvidersFor(url, openAIApiKey)
                     = [primary |-> "openai", fallback |-> "ollama"]

\* ---------------------------------------------------------------------
\* chunkText (analyze-document/index.ts): one call, one step per loop
\* iteration.  A string is the sequence of its characters.
\* ---------------------------------------------------------------------

MaxTextLen == 5
MaxChunkSize == 3

\* One iteration of the while loop: push text.slice(start, end), move
\* start back by the overlap, break when the chunk reached the end.
\* (mutant: the next chunk starts where this one ended)
chunkTextIteration_NoOverlap ==
    /\ chunkPc = "loop"
    /\ start < Len(text)
    /\ LET end == IF start + chunkSize < Len(text) THEN start + chunkSize
                  ELSE Len(text)
       IN  /\ chunks' = Append(chunks, SubSeq(text, start + 1, end))
           /\ start' = end
           /\ chunkPc' = IF start' >= Len(text) - chunkOverlap
                          THEN "returned" ELSE "loop"
    /\ UNCHANGED <<text, chunkSize, chunkOverlap>>
    /\ UNCHANGED <<handlerVars, dbVars, uploadVars, apiVars, listVars, feedbackVars>>

chunkTextIteration ==
    /\ chunkPc = "loop"
    /\ start < Len(text)
    /\ LET end == IF start + chunkSize < Len(text) THEN start + chunkSize
                  ELSE Len(text)
       IN  /\ chunks' = Append(chunks, SubSeq(text, start + 1, end))
           /\ start' = end - chunkOverlap
           /\ chunkPc' = IF start' >= Len(text) - chunkOverlap
                          THEN "returned" ELSE "loop"
    /\ UNCHANGED <<text, chunkSize, chunkOverlap>>
    /\ UNCHANGED <<handlerVars, dbVars, uploadVars, apiVars, listVars, feedbackVars>>

\* The loop condition is false: return chunks
chunkTextReturn ==
    /\ chunkPc = "loop"
    /\ ~(start < Len(text))
    /\ chunkPc' = "returned"
    /\ UNCHANGED <<text, chunkSize, chunkOverlap, chunks, start>>
    /\ UNCHANGED <<handlerVars, dbVars, uploadVars, apiVars, listVars, feedbackVars>>

\* A call chunkText(text, chunkSize, chunkOverlap) with
\* 0 <= chunkOverlap < chunkSize, after `let start = 0`
InitChunk ==
    /\ HandlerIdle
    /\ DbIdle
    /\ UploadIdle
    /\ ApiIdle
    /\ RestIdle({"chunk"})
    /\ text \in UNION {[1..n -> {"a", "b"}] : n \in 0..MaxTextLen}
    /\ chunkSize \in 1..MaxChunkSize
    /\ chunkOverlap \in 0..(chunkSize - 1)
    /\ chunks = <<>>
    /\ start = 0
    /\ chunkPc = "loop"

NextChunk ==
    \/ chunkTextIteration
    \/ chunkTextReturn

\* The function body runs to its return unless the loop never ends.
SpecChunk == InitChunk /\ [][NextChunk]_vars /\ WF_vars(NextChunk)

\* chunk.slice(n)
DropFirst(chunk, n) == SubSeq(chunk, n + 1, Len(chunk))

RECURSIVE Rejoin(_, _)
\* The first k chunks, each but the first without its first chunkOverlap
\* characters, concatenated
Rejoin(cs, k) ==
    IF k = 0 THEN <<>>
    ELSE IF k = 1 THEN cs[1]
    ELSE Rejoin(cs, k - 1) \o DropFirst(cs[k], chunkOverlap)

RoundTrip ==
    /\ Rejoin(chunks, Len(chunks)) = text
    /\ \A i \in 1..Len(chunks) : Len(chunks[i]) <= chunkSize
    /\ text = <<>> => chunks = <<>>

\* C30: for 0 <= chunkOverlap < chunkSize, chunkText returns, and the
\* returned chunks, each but the first without its first chunkOverlap
\* characters, concatenate to the text; no chunk is longer than chunkSize
\* and the empty text gives no chunk.
C30_ChunkRoundTrip ==
    /\ <>(chunkPc = "returned")
    /\ [](chunkPc = "returned" => RoundTrip)

C30_Witness ==
    /\ chunkPc = "returned"
    /\ Len(chunks) >= 2
    /\ chunkOverlap >= 1
    /\ Len(chunks[Len(chunks)]) < chunkSize
    /\ \E i \in 1..Len(text) : text[i] # text[1]
====
